---- MODULE Spec2Model ----
(***************************************************************************)
(* Model of pyrdmp/dmp.py: class DynamicMovementPrimitive.                 *)
(*                                                                         *)
(* Numbers.  numpy floats are modelled at unit resolution: every quantity  *)
(* is an integer, "/" is the integer quotient (\div, divisors are          *)
(* positive), and the transcendental functions (exp, arccos) are tables at *)
(* a stated fixed-point scale.  A position, velocity, weight row ... is a  *)
(* tuple of D integers: D = 1 for 1-D motion, D = 3 for array motion.      *)
(*                                                                         *)
(* Objects.  Python passes references.  A Python float is immutable, a     *)
(* numpy ndarray is mutable and "+=" on it writes in place.  Where the     *)
(* code binds a second name to a caller's array (x_r = x0, a = w) the      *)
(* model keeps ONE cell for the object and both names read and write it.   *)
(*                                                                         *)
(* Interpreter.  The tab characters on lines 91-96 make the file a         *)
(* TabError for Python 3, so the file runs under Python 2, where a tab     *)
(* advances to the next multiple of 8: lines 92-96 belong to the body of   *)
(* "if np.linalg.norm(dx) > 0.00005".                                      *)
(***************************************************************************)
EXTENDS Integers, Sequences, FiniteSets, TLC

VARIABLES self, pc, gen, ad, ret

vars == <<self, pc, gen, ad, ret>>

----------------------------------------------------------------------------
(* Bounds of the model *)

MaxIter == 2

----------------------------------------------------------------------------
(* Arithmetic helpers *)

Abs(n) == IF n < 0 THEN -n ELSE n

RECURSIVE SumSeq(_)
SumSeq(q) == IF q = <<>> THEN 0 ELSE Head(q) + SumSeq(Tail(q))

VZero(D) == [k \in 1..D |-> 0]

VAdd(u, v) == [k \in 1..Len(u) |-> u[k] + v[k]]

VSub(u, v) == [k \in 1..Len(u) |-> u[k] - v[k]]

VScale(c, v) == [k \in 1..Len(v) |-> c * v[k]]

VDiv(v, c) == [k \in 1..Len(v) |-> v[k] \div c]

VAddScalar(v, c) == [k \in 1..Len(v) |-> v[k] + c]

Dot(u, v) == SumSeq([k \in 1..Len(u) |-> u[k] * v[k]])

\* largest r in lo..hi with r*r <= n (lo*lo <= n < (hi+1)*(hi+1))
RECURSIVE SqrtBetween(_, _, _)
SqrtBetween(n, lo, hi) ==
    IF lo >= hi THEN lo
    ELSE LET mid == (lo + hi + 1) \div 2
         IN  IF mid * mid <= n THEN SqrtBetween(n, mid, hi) ELSE SqrtBetween(n, lo, mid - 1)

\* np.linalg.norm at unit resolution
Norm(v) == SqrtBetween(Dot(v, v), 0, 40000)

\* np.exp(-k) for a whole k >= 0, in millionths; below one millionth it is 0
ExpNegTable == <<367879, 135335, 49787, 18316, 6738, 2479, 912, 335, 123, 45, 17, 6, 2>>

ExpNeg(k) == IF k <= 0 THEN 1000 * 1000 ELSE IF k <= Len(ExpNegTable) THEN ExpNegTable[k] ELSE 0

\* np.arccos(num/den) for den > 0, in thousandths of a radian, to the nearest
\* multiple of pi/4 (the bin edges are cos(pi/8) = 0.92 and cos(3pi/8) = 0.38)
ArcCos(num, den) ==
    IF num * 100 >= 92 * den THEN 0
    ELSE IF num * 100 >= 38 * den THEN 785
    ELSE IF num * 100 > -38 * den THEN 1571
    ELSE IF num * 100 > -92 * den THEN 2356
    ELSE 3142

----------------------------------------------------------------------------
(* __init__ *)

\* default _obs_gamma
ObsGammaDefault == 1200

\* default _obs_beta = 6.3662, in ten-thousandths
ObsBetaDefault == 63662

DMPInitSwapped(a, ng, stb, obs, obs_gamma, obs_beta) ==
    [a |-> a, b |-> a \div 3, as_deg |-> a \div 4, ng |-> ng, stb |-> stb,
     obs |-> obs, obs_gamma |-> obs_gamma, obs_beta |-> obs_beta]

\* _a/4 and _a/3 (lines 26-27) are quotients at unit resolution; the gains the
\* model constructs (AValues) are multiples of 12, for which both are exact
DMPInit(a, ng, stb, obs, obs_gamma, obs_beta) ==
    [a |-> a, b |-> a \div 4, as_deg |-> a \div 3, ng |-> ng, stb |-> stb,
     obs |-> obs, obs_gamma |-> obs_gamma, obs_beta |-> obs_beta]

----------------------------------------------------------------------------
(* phase *)

\* np.linspace(0, 1.0, N)[i] * k, for the 1-based index i
LinspaceTimes(k, i, N) == IF N = 1 THEN 0 ELSE (k * (i - 1)) \div (N - 1)

\* result in millionths
Phase(time) == [i \in 1..Len(time) |-> ExpNeg(LinspaceTimes(self.as_deg, i, Len(time)))]

----------------------------------------------------------------------------
(* distributions *)

SeqMin(q) == CHOOSE m \in {q[i] : i \in 1..Len(q)} : \A i \in 1..Len(q) : m <= q[i]

SeqMax(q) == CHOOSE m \in {q[i] : i \in 1..Len(q)} : \A i \in 1..Len(q) : m >= q[i]

\* pyrdmp.utils.psi: the Gaussian kernel exp(-h (s - c)^2), in millionths
Psi(h, c, s) == ExpNeg(h * (s - c) * (s - c))

\* np.linspace(lo, hi, n)[j], for the 1-based index j
Linspace(lo, hi, n, j) == IF n = 1 THEN lo ELSE lo + ((j - 1) * (hi - lo)) \div (n - 1)

Distributions(s, h) ==
    LET c == [j \in 1..self.ng |-> Linspace(SeqMin(s), SeqMax(s), self.ng, j)]
    IN  IF self.ng < 2 THEN [err |-> "IndexError", nan |-> FALSE, psv |-> <<>>]
        ELSE LET d == c[2] - c[1]
             IN  IF d = 0 THEN [err |-> "none", nan |-> TRUE, psv |-> <<>>]
                 ELSE [err |-> "none", nan |-> FALSE,
                       psv |-> [j \in 1..self.ng |->
                                  [i \in 1..Len(s) |-> Psi(h, c[j] \div d, s[i] \div d)]]]

----------------------------------------------------------------------------
(* reward *)

\* default w = 0.9, in tenths
RewardW == 9

\* default threshold = 0.01 = 1/ThresholdDen
ThresholdDen == 100

\* result in millionths; np.sqrt(dist*dist.T) of a scalar is |dist|
Reward(goal, position, time, tau, w) ==
    LET dist == goal - position
    IN  IF Abs(time - tau) * ThresholdDen < 1
        THEN (w * ExpNeg(Abs(dist))) \div 10
        ELSE (((10 - w) * ExpNeg(Abs(dist))) \div 10) \div tau

----------------------------------------------------------------------------
(* avoid_obstacles *)

\* 0.00005 = VelThresholdNum / VelThresholdDen
VelThresholdNum == 5

VelThresholdDen == 100000

\* np.linalg.norm(dx) > 0.00005
Moving(dx) == Norm(dx) * VelThresholdDen > VelThresholdNum

\* obstacles[:, :3]: the first three components of one row
FirstThree(o) == SubSeq(o, 1, 3)

\* self.obs_gamma * phi * np.exp(-self.obs_beta * abs(phi)), phi in thousandths
\* of a radian, obs_beta in ten-thousandths; rounded towards zero to a unit
DPhi(phi) ==
    LET e   == ExpNeg((self.obs_beta * Abs(phi) + 5000000) \div 10000000)
        mag == (self.obs_gamma * ((Abs(phi) * e) \div 1000)) \div (1000 * 1000)
    IN  IF phi < 0 THEN -mag ELSE mag

\* One pass of the loop body for the obstacle o (lines 87-96).  acc is
\* [err, line, nan, p]: the exception raised so far and its line, whether p
\* is NaN, and p.  With a velocity that is not a 3-vector, np.dot raises on
\* line 88 (arrays of unequal length) or the "if" of line 89 does (a vector
\* where it needs one truth value).
ObstacleStep(acc, o, x, dx, g) ==
    IF acc.err # "none" \/ ~Moving(dx) THEN acc
    ELSE IF Len(x) # 3 THEN [acc EXCEPT !.err = "ValueError", !.line = 89]
    ELSE LET diff == VSub(o, x)
             den  == Norm(diff) * Norm(dx)
             dotp == Dot(dx, diff)
         IN  IF den = 0 THEN [acc EXCEPT !.nan = TRUE]
             ELSE LET phi0 == ArcCos(dotp, den)
                      phi  == IF dotp < 0 THEN -phi0 ELSE phi0
                      dphi == IF Norm(diff) > Norm(VSub(g, x)) THEN 0 ELSE DPhi(phi)
                  IN  [acc EXCEPT !.p = VAddScalar(@, dphi)]

RECURSIVE ObstacleLoop(_, _, _, _, _)
ObstacleLoop(acc, rows, x, dx, g) ==
    IF rows = <<>> THEN acc
    ELSE ObstacleLoop(ObstacleStep(acc, FirstThree(Head(rows)), x, dx, g), Tail(rows), x, dx, g)

\* obstacles is [kind, rows]: kind "list" is a Python list (the slice
\* obstacles[:,:3] raises TypeError), kind "array" a 2-D ndarray of rows.
AvoidObstacles(x, dx, g, obstacles) ==
    LET p0 == [err |-> "none", line |-> 0, nan |-> FALSE, p |-> VZero(Len(x))]
    IN  IF obstacles.kind = "list" THEN [p0 EXCEPT !.err = "TypeError", !.line = 86]
        ELSE ObstacleLoop(p0, obstacles.rows, x, dx, g)

----------------------------------------------------------------------------
(* generate *)

\* The frame of one generate call.  x0 is the cell of the caller's x0 object
\* and x0_in its value when the call was made.  i is the 1-based index of the
\* next sample.  The *_used fields record, per executed step, the values the
\* step read: the x0 it used, mod, the arguments of avoid_obstacles and p.
GenerateInit(w, x0, x0kind, g, time, s, psv, obstacles) ==
    LET N == Len(time)
        D == Len(w[1])
        Z == [i \in 1..N |-> VZero(D)]
    IN  [w |-> w, x0 |-> x0, x0kind |-> x0kind, x0_in |-> x0, g |-> g, time |-> time,
         s |-> s, psv |-> psv, obstacles |-> obstacles,
         sigma |-> [i \in 1..N |-> 0],
         ddx |-> Z, dx |-> Z, x |-> Z, f_rep |-> Z,
         tau |-> time[N], dx_r |-> VZero(D), x_r |-> x0, p |-> VZero(D),
         i |-> 1, err |-> "none", line |-> 0, nan |-> FALSE, status |-> "running",
         x0_used |-> <<>>, mod_used |-> <<>>, obs_x |-> <<>>, obs_dx |-> <<>>, p_used |-> <<>>]

NoGenerate == [GenerateInit(<<<<0>>>>, <<0>>, "float", <<0>>, <<0>>, <<0>>, <<<<1>>>>,
                            [kind |-> "list", rows |-> <<>>])
                 EXCEPT !.status = "none"]

\* x[i-1] for the 0-based i of the code; Python's index -1 is the last row
PrevIndexCurrent(i, N) == i

PrevIndex(i, N) == IF i = 1 THEN N ELSE i - 1

\* line 145, with the operands as D-tuples
AccelNoDamping(st, f, mod, p) ==
    VDiv(VAdd(VAdd(VAdd(VScale(self.a, VScale(self.b, VSub(st.g, st.x_r))), f), mod), p),
         st.tau * st.tau)

Accel(st, f, mod, p) ==
    VDiv(VAdd(VAdd(VAdd(VScale(self.a, VSub(VScale(self.b, VSub(st.g, st.x_r)),
                                           VScale(st.tau, st.dx_r))), f), mod), p),
         st.tau * st.tau)

\* lines 132-135: p_sum and p_div at sample i
PSum(st, i) ==
    LET D == Len(st.w[1])
    IN  [k \in 1..D |-> SumSeq([j \in 1..self.ng |-> st.psv[j][i] * st.w[j][k]])]

PDiv(st, i) == SumSeq([j \in 1..self.ng |-> st.psv[j][i]])

\* One pass of the loop body, lines 116-149, for the sample st.i
GenStep(st) ==
    LET i    == st.i
        N    == Len(st.time)
        D    == Len(st.w[1])
        dt   == IF i = 1 THEN st.time[i] ELSE st.time[i] - st.time[i - 1]
        gx0  == VSub(st.g, st.x0)
        mod  == IF self.stb THEN VScale(self.b * st.s[i], gx0) ELSE VZero(D)
        seen == [st EXCEPT !.x0_used = Append(@, st.x0), !.mod_used = Append(@, mod)]
    IN  IF st.nan THEN [st EXCEPT !.i = i + 1]
        ELSE IF self.stb /\ Len(gx0) > 1
        THEN \* line 127: an array is assigned to one element of sigma
             [seen EXCEPT !.err = "ValueError", !.line = 127, !.status = "raised"]
        ELSE
        LET sig  == IF self.stb THEN gx0[1] * st.s[i] ELSE st.s[i]
            pdiv == PDiv(st, i)
            f    == IF pdiv = 0 THEN VZero(D) ELSE VScale(sig, VDiv(PSum(st, i), pdiv))
            st1  == [seen EXCEPT !.sigma[i] = sig, !.f_rep[i] = f]
            prev == PrevIndex(i, N)
            r    == IF self.obs
                    THEN AvoidObstacles(st.x[prev], st.dx[prev], st.g, st.obstacles)
                    ELSE [err |-> "none", line |-> 0, nan |-> FALSE, p |-> st.p]
            st2  == IF self.obs
                    THEN [st1 EXCEPT !.obs_x = Append(@, st.x[prev]),
                                     !.obs_dx = Append(@, st.dx[prev]),
                                     !.p_used = Append(@, r.p)]
                    ELSE st1
        IN  IF r.err # "none"
            THEN [st2 EXCEPT !.err = r.err, !.line = r.line, !.status = "raised"]
            ELSE IF r.nan \/ pdiv = 0 THEN [st2 EXCEPT !.nan = TRUE, !.i = i + 1]
            ELSE
            LET ddx_r == Accel(st, f, mod, r.p)
                dx_r  == VAdd(st.dx_r, VScale(dt, ddx_r))
                x_r   == VAdd(st.x_r, VScale(dt, dx_r))
            IN  [st2 EXCEPT !.p = r.p, !.dx_r = dx_r, !.x_r = x_r,
                            \* x_r = x0 (line 111) names the caller's array, and
                            \* "x_r += ..." (line 147) writes into it
                            !.x0 = IF st.x0kind = "array" THEN x_r ELSE @,
                            !.ddx[i] = ddx_r, !.dx[i] = dx_r, !.x[i] = x_r,
                            !.i = i + 1]

RECURSIVE GenRun(_)
GenRun(st) ==
    IF st.status # "running" \/ st.i > Len(st.time) THEN st ELSE GenRun(GenStep(st))

\* the call generate(w, x0, g, time, s, psv, obstacles) run to its end
Generate(w, x0, x0kind, g, time, s, psv, obstacles) ==
    GenRun(GenerateInit(w, x0, x0kind, g, time, s, psv, obstacles))

----------------------------------------------------------------------------
(* imitate *)

\* line 76 at sample i; x, dx, ddx are sequences of D-tuples
FTarget(x, dx, ddx, time, s, i) ==
    LET N   == Len(time)
        g   == x[N]
        x0  == x[1]
        tau == time[N]
        mod == IF self.stb THEN VScale(self.b * s[i], VSub(g, x0)) ELSE VZero(Len(g))
    IN  VAdd(VSub(VScale(tau * tau, ddx[i]),
                  VScale(self.a, VSub(VScale(self.b, VSub(g, x[i])), VScale(tau, dx[i])))),
             mod)

\* line 79 for the basis row p: a weight, or NaN when the denominator is 0
Regress(sigma, p, f_target) ==
    LET N   == Len(sigma)
        D   == Len(f_target[1])
        den == SumSeq([i \in 1..N |-> sigma[i] * p[i] * sigma[i]])
        num == [k \in 1..D |-> SumSeq([i \in 1..N |-> sigma[i] * p[i] * f_target[i][k]])]
    IN  IF den = 0 THEN [nan |-> TRUE, v |-> VZero(D)]
        ELSE [nan |-> FALSE, v |-> VDiv(num, den)]

Imitate(x, dx, ddx, time, s, psv) ==
    LET N  == Len(time)
        gx0 == VSub(x[N], x[1])
    IN  IF self.stb /\ Len(gx0) > 1
        THEN \* line 70: an array is assigned to one element of sigma
             [err |-> "ValueError", f_target |-> <<>>, w |-> <<>>]
        ELSE LET sigma == [i \in 1..N |-> IF self.stb THEN gx0[1] * s[i] ELSE s[i]]
                 f_target == [i \in 1..N |-> FTarget(x, dx, ddx, time, s, i)]
             IN  [err |-> "none", f_target |-> f_target,
                  w |-> [j \in 1..Len(psv) |-> Regress(sigma, psv[j], f_target)]]

----------------------------------------------------------------------------
(* adapt *)

\* np.floor(samples*rate).astype(int), rate = num/den
EliteCount(samples, rate) == (samples * rate.num) \div rate.den

IndexOrders(n) == {q \in [1..n -> 1..n] : \A i, j \in 1..n : i # j => q[i] # q[j]}

\* np.argsort(Q)[::-1]: the indices by descending Q; the order of equal
\* scores is the sort's choice
DescendingOrders(Q) ==
    {q \in IndexOrders(Len(Q)) : \A i \in 1..(Len(Q) - 1) : Q[q[i]] >= Q[q[i + 1]]}

\* [:n]
Take(q, n) == SubSeq(q, 1, IF n > Len(q) THEN Len(q) ELSE n)

\* np.cumsum
RECURSIVE CumSum(_)
CumSum(q) ==
    IF q = <<>> THEN <<>>
    ELSE LET n == Len(q) IN Append(CumSum(SubSeq(q, 1, n - 1)), SumSeq(q))

\* np.std(psv[j]*a[j]) = 0 exactly when the products are all equal
StdIsZero(row, aj) == \A i, k \in 1..Len(row) : row[i] * aj = row[k] * aj

\* the values np.random.normal(0, std) is drawn from in the model
NoiseValues == {-1, 1}

Noise(row, aj) == IF StdIsZero(row, aj) THEN {0} ELSE NoiseValues

\* lines 168-169: the rows one sample of exploration can be
NoiseRows(fr) ==
    {e \in [1..self.ng -> NoiseValues \cup {0}] :
        \A j \in 1..self.ng : e[j] \in Noise(fr.psv[j], fr.w[j])}

\* The frame of one adapt call.  w is the cell of the caller's weight array,
\* which the local name a also names (line 159), and w_in its value when the
\* call was made.  x[k], dx[k], ddx[k] are the rollout of candidate k.
AdaptInit(w, x0, g, t, s, psv, samples, rate) ==
    [w |-> w, w_in |-> w, x0 |-> x0, g |-> g, t |-> t, s |-> s, psv |-> psv,
     samples |-> samples, rate |-> rate, tau |-> t[Len(t)],
     met_threshold |-> FALSE, counter |-> 0, gain |-> <<>>,
     exploration |-> <<>>, actions |-> <<>>, ddx |-> <<>>, dx |-> <<>>, x |-> <<>>,
     Q |-> <<>>, sort_Q |-> <<>>, iter |-> 0, best_scores |-> <<>>,
     err |-> "none", nan |-> FALSE, status |-> "running",
     out |-> [ddx |-> <<>>, dx |-> <<>>, x |-> <<>>, w |-> <<>>, trace |-> <<>>]]

NoAdapt == [AdaptInit(<<>>, 0, 0, <<0>>, <<>>, <<>>, 0, [num |-> 0, den |-> 1])
              EXCEPT !.status = "none"]

\* line 167: while not met_threshold
LoopGuardCapped(a) == ~a.met_threshold /\ a.iter < 1

LoopGuard(a) == ~a.met_threshold

\* line 174: the rollout of one candidate; obstacles is left to its default []
Rollout(fr, act) ==
    Generate([j \in 1..Len(act) |-> <<act[j]>>], <<fr.x0>>, "float", <<fr.g>>,
             fr.t, fr.s, fr.psv, [kind |-> "list", rows |-> <<>>])

Column(rows) == [j \in 1..Len(rows) |-> rows[j][1]]

\* line 177: the score of a candidate whose positions are xs
Score(fr, xs) ==
    SumSeq([j \in 1..Len(fr.t) |-> Reward(fr.g, xs[j], fr.t[j], fr.tau, RewardW)])

\* line 189: the entry appended to gain
GainEntryWorst(Q, sort_Q) == Q[sort_Q[Len(sort_Q)]]

GainEntry(Q, sort_Q) == Q[sort_Q[1]]

\* line 192: the stopping test, 0.01 = 1/StopDen
StopDen == 100

StopTest(fr, x, sort_Q) == Abs(x[sort_Q[1]][Len(fr.t)] - fr.g) * StopDen < 1

\* line 171: actions = a + e for every row e of exploration
Actions(fr, exploration) ==
    [k \in 1..fr.samples |-> [j \in 1..self.ng |-> fr.w[j] + exploration[k][j]]]

\* line 174: one rollout per candidate
Rollouts(fr, exploration) ==
    LET actions == Actions(fr, exploration)
    IN  [k \in 1..fr.samples |-> Rollout(fr, actions[k])]

\* line 177: the scores of the candidates, <<>> when a rollout raised
Scores(fr, runs) ==
    IF \E k \in 1..Len(runs) : runs[k].err # "none" THEN <<>>
    ELSE [k \in 1..Len(runs) |-> Score(fr, Column(runs[k].x))]

\* One pass of the loop body, lines 168-193, with the noise drawn as
\* exploration, its rollouts runs, and np.argsort(Q)[::-1] coming out as order
AdaptBody(fr, exploration, runs, order) ==
    LET K       == fr.samples
        actions == Actions(fr, exploration)
        failed  == {k \in 1..K : runs[k].err # "none"}
    IN  IF failed # {}
        THEN [fr EXCEPT !.exploration = exploration, !.actions = actions,
                        !.err = runs[CHOOSE k \in failed : \A m \in failed : k <= m].err,
                        !.status = "raised"]
        ELSE
        LET x      == [k \in 1..K |-> Column(runs[k].x)]
            Q      == Scores(fr, runs)
            sort_Q == Take(order, EliteCount(K, fr.rate))
            sumQ_y == SumSeq([m \in 1..Len(sort_Q) |-> Q[sort_Q[m]]])
            sumQ_x == [j \in 1..self.ng |->
                         SumSeq([m \in 1..Len(sort_Q) |-> exploration[sort_Q[m]][j] * Q[sort_Q[m]]])]
            fr1    == [fr EXCEPT !.exploration = exploration, !.actions = actions,
                                 !.ddx = [k \in 1..K |-> Column(runs[k].ddx)],
                                 !.dx = [k \in 1..K |-> Column(runs[k].dx)],
                                 !.x = x, !.Q = Q, !.sort_Q = sort_Q, !.iter = @ + 1,
                                 !.best_scores = Append(@, SeqMax(Q))]
        IN  IF sort_Q = <<>>
            THEN \* line 187: sum([]) is the int 0, and 0/0 raises
                 [fr1 EXCEPT !.err = "ZeroDivisionError", !.status = "raised"]
            ELSE [fr1 EXCEPT
                    \* a += ... (line 187) writes into the array a names: the caller's w
                    !.w = IF sumQ_y = 0 THEN @
                          ELSE [j \in 1..self.ng |-> @[j] + sumQ_x[j] \div sumQ_y],
                    !.nan = (sumQ_y = 0),
                    !.gain = Append(@, GainEntry(Q, sort_Q)),
                    !.met_threshold = StopTest(fr, x, sort_Q)]

\* line 195
AdaptResultUpdated(fr) ==
    LET best == fr.sort_Q[1]
    IN  [ddx |-> fr.ddx[best], dx |-> fr.dx[best], x |-> fr.x[best],
         w |-> fr.w, trace |-> CumSum(fr.gain)]

AdaptResult(fr) ==
    LET best == fr.sort_Q[1]
    IN  [ddx |-> fr.ddx[best], dx |-> fr.dx[best], x |-> fr.x[best],
         w |-> fr.actions[best], trace |-> CumSum(fr.gain)]

----------------------------------------------------------------------------
(* Inputs of the calls *)

AValues == {12, 24}

NoObstacles == [kind |-> "list", rows |-> <<>>]

ObstacleInputs ==
    {NoObstacles,
     [kind |-> "array", rows |-> <<>>],
     [kind |-> "array", rows |-> <<<<10, 10, 8>>>>],
     [kind |-> "array", rows |-> <<<<2, 0, 1, 7>>, <<0, 0, 0>>>>]}

\* time, phase and basis matrix of equal length
Scenes ==
    {[time |-> <<0, 1>>, s |-> <<1, 1>>, psv |-> <<<<2, 1>>, <<1, 2>>>>],
     [time |-> <<1, 2, 3>>, s |-> <<1, 1, 0>>, psv |-> <<<<3, 2, 1>>, <<1, 2, 3>>>>]}

\* w, x0 and g of one shape: a Python float (1-D motion) or an ndarray
Shapes ==
    {[x0kind |-> k, w |-> w, x0 |-> <<0>>, g |-> g] :
        k \in {"float", "array"}, w \in {<<<<0>>, <<0>>>>, <<<<3>>, <<-6>>>>}, g \in {<<1>>, <<2>>}}
    \cup
    {[x0kind |-> "array", w |-> w, x0 |-> x0, g |-> g] :
        w \in {<<<<0, 0, 0>>, <<0, 0, 0>>>>, <<<<3, 0, -3>>, <<-6, 3, 0>>>>},
        x0 \in {<<0, 0, 0>>, <<1, 0, 0>>}, g \in {<<1, 2, 0>>, <<2, 2, 2>>}}

RateInputs == {[num |-> 1, den |-> 1], [num |-> 1, den |-> 2], [num |-> 1, den |-> 4]}

\* a weight 0 has np.std(psv[j]*a[j]) = 0, so its noise is exactly 0
AdaptWeights == {<<0, -53>>, <<0, -54>>, <<0, -215>>, <<0, 0>>}

DemoInputs ==
    {[x |-> <<<<0>>, <<1>>>>, dx |-> <<<<0>>, <<1>>>>, ddx |-> <<<<1>>, <<0>>>>],
     [x |-> <<<<0, 0, 0>>, <<1, 2, 0>>>>, dx |-> <<<<0, 0, 0>>, <<1, 2, 0>>>>,
      ddx |-> <<<<1, 2, 0>>, <<0, 0, 0>>>>]}

----------------------------------------------------------------------------
(* The state machine: one instance and the calls made on it.  gen, ad and   *)
(* ret hold the frame and the result of the latest generate, adapt and     *)
(* other call; making a call drops what the earlier calls left.            *)

NoReturn == [op |-> "none"]

Init ==
    /\ \E a \in AValues, stb \in BOOLEAN, obs \in BOOLEAN :
          self = DMPInit(a, 2, stb, obs, ObsGammaDefault, ObsBetaDefault)
    /\ pc = "idle"
    /\ gen = NoGenerate
    /\ ad = NoAdapt
    /\ ret = NoReturn

CallPhase ==
    /\ pc = "idle"
    /\ \E sc \in Scenes : ret' = [op |-> "phase", s |-> Phase(sc.time)]
    /\ gen' = NoGenerate
    /\ ad' = NoAdapt
    /\ UNCHANGED <<self, pc>>

CallDistributions ==
    /\ pc = "idle"
    /\ \E sc \in Scenes, h \in {1, 2} :
          ret' = [op |-> "distributions", h |-> h, s |-> Phase(sc.time),
                  out |-> Distributions(Phase(sc.time), h)]
    /\ gen' = NoGenerate
    /\ ad' = NoAdapt
    /\ UNCHANGED <<self, pc>>

CallImitate ==
    /\ pc = "idle"
    /\ \E d \in DemoInputs, sc \in {c \in Scenes : Len(c.time) = 2} :
          ret' = [op |-> "imitate", x |-> d.x,
                  out |-> Imitate(d.x, d.dx, d.ddx, sc.time, sc.s, sc.psv)]
    /\ gen' = NoGenerate
    /\ ad' = NoAdapt
    /\ UNCHANGED <<self, pc>>

CallReward ==
    /\ pc = "idle"
    /\ \E goal \in {1, 2}, position \in -2..3, time \in 0..2, tau \in 1..2 :
          ret' = [op |-> "reward", goal |-> goal, position |-> position, time |-> time,
                  tau |-> tau, out |-> Reward(goal, position, time, tau, RewardW)]
    /\ gen' = NoGenerate
    /\ ad' = NoAdapt
    /\ UNCHANGED <<self, pc>>

CallAvoidObstacles ==
    /\ pc = "idle"
    /\ \E x \in {<<0, 0, 0>>, <<1, 0, 1>>}, dx \in {<<0, 0, 0>>, <<1, 1, 1>>, <<2, 0, -1>>},
          g \in {<<2, 2, 2>>}, obstacles \in {o \in ObstacleInputs : o.kind = "array"} :
          ret' = [op |-> "avoid_obstacles", x |-> x, dx |-> dx, g |-> g,
                  obstacles |-> obstacles, out |-> AvoidObstacles(x, dx, g, obstacles)]
    /\ gen' = NoGenerate
    /\ ad' = NoAdapt
    /\ UNCHANGED <<self, pc>>

CallGenerate ==
    /\ pc = "idle"
    /\ \E sh \in Shapes, sc \in Scenes, obstacles \in ObstacleInputs :
          gen' = GenerateInit(sh.w, sh.x0, sh.x0kind, sh.g, sc.time, sc.s, sc.psv, obstacles)
    /\ pc' = "generate"
    /\ ad' = NoAdapt
    /\ ret' = NoReturn
    /\ UNCHANGED self

\* one pass of the loop of generate; an exception ends the call
GenerateStep ==
    /\ pc = "generate"
    /\ gen.i <= Len(gen.time)
    /\ gen' = GenStep(gen)
    /\ pc' = IF gen'.status = "raised" THEN "idle" ELSE pc
    /\ UNCHANGED <<self, ad, ret>>

\* line 151
GenerateReturn ==
    /\ pc = "generate"
    /\ gen.i > Len(gen.time)
    /\ gen' = [gen EXCEPT !.status = "returned"]
    /\ pc' = "idle"
    /\ UNCHANGED <<self, ad, ret>>

CallAdapt ==
    /\ pc = "idle"
    /\ \E w \in AdaptWeights, samples \in {2}, rate \in RateInputs,
          sc \in {c \in Scenes : Len(c.time) = 2} :
          ad' = AdaptInit(w, 0, 1, sc.time, sc.s, sc.psv, samples, rate)
    /\ pc' = "adapt"
    /\ gen' = NoGenerate
    /\ ret' = NoReturn
    /\ UNCHANGED self

\* one pass of the loop of adapt; an exception ends the call
AdaptIterate ==
    /\ pc = "adapt"
    /\ LoopGuard(ad)
    /\ ad.iter < MaxIter
    /\ IF ad.nan
       THEN ad' = [ad EXCEPT !.iter = @ + 1]
       ELSE \E exploration \in [1..ad.samples -> NoiseRows(ad)] :
               LET runs == Rollouts(ad, exploration)
                   Q    == Scores(ad, runs)
               IN  \E order \in (IF Q = <<>> THEN {[k \in 1..ad.samples |-> k]}
                                 ELSE DescendingOrders(Q)) :
                      ad' = AdaptBody(ad, exploration, runs, order)
    /\ pc' = IF ad'.status = "raised" THEN "idle" ELSE pc
    /\ UNCHANGED <<self, gen, ret>>

\* line 195
AdaptReturn ==
    /\ pc = "adapt"
    /\ ~LoopGuard(ad)
    /\ ad' = [ad EXCEPT !.out = AdaptResult(ad), !.status = "returned"]
    /\ pc' = "idle"
    /\ UNCHANGED <<self, gen, ret>>

Next ==
    \/ CallPhase
    \/ CallDistributions
    \/ CallImitate
    \/ CallReward
    \/ CallAvoidObstacles
    \/ CallGenerate
    \/ GenerateStep
    \/ GenerateReturn
    \/ CallAdapt
    \/ AdaptIterate
    \/ AdaptReturn

Spec == Init /\ [][Next]_vars

----------------------------------------------------------------------------
(* Properties *)

AdaptCalled == ad.status # "none"

GenerateCalled == gen.status # "none"

\* C1: adapt does not modify the caller-supplied weight array w: during and
\* after the call the caller's array holds the values it held before the call.
C1_CallerWeightsUnchanged == AdaptCalled => ad.w = ad.w_in

\* C2: adapt returns only in an iteration whose best elite (the candidate of
\* highest score) ends within 0.01 of the goal, and the positions, velocities,
\* accelerations and weights it returns are those of that candidate of that
\* iteration: the returned sequences are the rollout of the returned weights.
C2_ReturnsBestElite ==
    ad.status = "returned" =>
        LET best == ad.sort_Q[1]
            run  == Rollout(ad, ad.out.w)
        IN  /\ \A k \in 1..ad.samples : ad.Q[best] >= ad.Q[k]
            /\ Abs(ad.out.x[Len(ad.t)] - ad.g) * StopDen < 1
            /\ ad.out.w = ad.actions[best]
            /\ ad.out.x = ad.x[best] /\ ad.out.x = Column(run.x)
            /\ ad.out.dx = ad.dx[best] /\ ad.out.dx = Column(run.dx)
            /\ ad.out.ddx = ad.ddx[best] /\ ad.out.ddx = Column(run.ddx)

C2_Witness ==
    /\ ad.status = "returned"
    /\ ad.iter >= 2
    /\ ad.out.w # ad.w

\* the stopping condition holds of the iteration adapt has just run
StoppedNow == ad.iter >= 1 /\ StopTest(ad, ad.x, ad.sort_Q)

\* C3: adapt has no iteration cap.  From inside the loop the only step after
\* an iteration that met the stopping condition is the return, and after one
\* that did not meet it (or before the first) the only step is another
\* iteration, however many have run; so adapt returns exactly when some
\* iteration meets the condition.
C3_NoIterationCap ==
    [][pc = "adapt" =>
          IF StoppedNow
          THEN ad'.status = "returned"
          ELSE /\ ad'.status # "returned"
               /\ ad'.status = "raised" \/ ad'.iter = ad.iter + 1]_vars

C3_Witness ==
    /\ pc = "adapt"
    /\ ad.iter >= 2
    /\ ~StoppedNow

ZeroWeights(w) == \A j \in 1..Len(w) : w[j] = VZero(Len(w[j]))

\* generate was called with all-zero weights on an instance with stb and obs off
PointAttractorCase ==
    /\ GenerateCalled
    /\ ~self.stb /\ ~self.obs
    /\ ZeroWeights(gen.w)

\* C4 (as stated): with zero weights and stb, obs off, f_rep[i] = 0 and
\* tau^2 * ddx[i] = a * (b * (g - x[i]) - tau * dx[i]) at every sample i.
C4_Original ==
    PointAttractorCase =>
        \A i \in 1..(gen.i - 1) :
            /\ gen.f_rep[i] = VZero(Len(gen.g))
            /\ VScale(gen.tau * gen.tau, gen.ddx[i])
                 = VScale(self.a, VSub(VScale(self.b, VSub(gen.g, gen.x[i])),
                                       VScale(gen.tau, gen.dx[i])))

\* C4 (amended): with zero weights and stb, obs off, f_rep[i] = 0 and
\* ddx[i] = a * (b * (g - xp) - tau * dxp) / tau^2 at every sample i, where
\* xp, dxp are the position and velocity BEFORE step i: x[i-1], dx[i-1], and
\* the start x0 with velocity 0 for the first sample.
C4_PointAttractor ==
    PointAttractorCase =>
        \A i \in 1..(gen.i - 1) :
            LET xp  == IF i = 1 THEN gen.x0_in ELSE gen.x[i - 1]
                dxp == IF i = 1 THEN VZero(Len(gen.g)) ELSE gen.dx[i - 1]
            IN  /\ gen.f_rep[i] = VZero(Len(gen.g))
                /\ gen.ddx[i]
                     = VDiv(VScale(self.a, VSub(VScale(self.b, VSub(gen.g, xp)),
                                                VScale(gen.tau, dxp))),
                            gen.tau * gen.tau)

C4_Witness ==
    /\ PointAttractorCase
    /\ gen.status = "returned"
    /\ Len(gen.time) = 3
    /\ gen.dx[2] # VZero(Len(gen.g))
    /\ gen.x[3] # gen.x0_in

\* C5: the obstacle term is the zero vector, of the shape of the position,
\* when the obstacle list is empty (the default [] of generate included) and
\* when the velocity magnitude is at most 0.00005; the call does not fail.
C5_ObstacleTermZero ==
    /\ (ret.op = "avoid_obstacles" /\ (ret.obstacles.rows = <<>> \/ ~Moving(ret.dx))) =>
          /\ ret.out.err = "none" /\ ~ret.out.nan
          /\ ret.out.p = VZero(Len(ret.x))
    /\ (GenerateCalled /\ self.obs) =>
          \A i \in 1..Len(gen.obs_x) :
             (gen.obstacles.rows = <<>> \/ ~Moving(gen.obs_dx[i])) =>
                /\ gen.p_used[i] = VZero(Len(gen.obs_x[i]))
                /\ ~(i = Len(gen.obs_x) /\ gen.status = "raised")

C7_StabilizationUsesCallerX0 ==
    (GenerateCalled /\ self.stb) =>
        /\ gen.line # 127
        /\ gen.x0 = gen.x0_in
        /\ \A i \in 1..Len(gen.x0_used) :
              /\ gen.x0_used[i] = gen.x0_in
              /\ gen.mod_used[i] = VScale(self.b * gen.s[i], VSub(gen.g, gen.x0_in))
        /\ \A i \in 1..(gen.i - 1) :
              gen.nan \/ <<gen.sigma[i]>> = VScale(gen.s[i], VSub(gen.g, gen.x0_in))

\* C8: in every adapt iteration there are exactly floor(samples*rate) elites,
\* no elite scores below a non-elite, the first elite has the highest score,
\* and the iteration is well defined, floor(samples*rate) = 0 included.
C8_EliteSelection ==
    (AdaptCalled /\ ad.Q # <<>>) =>
        LET elites == {ad.sort_Q[m] : m \in 1..Len(ad.sort_Q)}
        IN  /\ ad.status # "raised"
            /\ Len(ad.sort_Q) = EliteCount(ad.samples, ad.rate)
            /\ Cardinality(elites) = Len(ad.sort_Q)
            /\ \A e \in elites, n \in (1..ad.samples) \ elites : ad.Q[e] >= ad.Q[n]
            /\ ad.sort_Q # <<>> => \A k \in 1..ad.samples : ad.Q[ad.sort_Q[1]] >= ad.Q[k]

\* C9: with obstacle avoidance on, the repulsion of step i is computed from
\* the position and velocity the rollout produced at step i-1; at the first
\* step it is computed from the zero rows the arrays start with (not from x0),
\* so the velocity is 0 and the repulsion is zero.
C9_RepulsionFromPreviousStep ==
    (GenerateCalled /\ self.obs) =>
        \A i \in 1..Len(gen.obs_x) :
            LET Z == VZero(Len(gen.w[1]))
            IN  /\ gen.obs_x[i] = IF i = 1 THEN Z ELSE gen.x[i - 1]
                /\ gen.obs_dx[i] = IF i = 1 THEN Z ELSE gen.dx[i - 1]
                /\ i = 1 => gen.p_used[i] = Z
                /\ (i < gen.i /\ (gen.nan => i < Len(gen.obs_x))) =>
                      \* the repulsion is the term added on line 145
                      LET xp  == IF i = 1 THEN gen.x0_in ELSE gen.x[i - 1]
                          dxp == IF i = 1 THEN Z ELSE gen.dx[i - 1]
                      IN  gen.ddx[i]
                            = VDiv(VAdd(VAdd(VAdd(VScale(self.a,
                                                         VSub(VScale(self.b, VSub(gen.g, xp)),
                                                              VScale(gen.tau, dxp))),
                                                  gen.f_rep[i]), gen.mod_used[i]), gen.p_used[i]),
                                   gen.tau * gen.tau)

C9_Witness ==
    /\ GenerateCalled /\ self.obs
    /\ gen.status = "returned"
    /\ gen.x0_in # VZero(Len(gen.x0_in))
    /\ \E i \in 2..Len(gen.p_used) : gen.p_used[i] # VZero(Len(gen.g))

Increasing(q) == \A k \in 1..(Len(q) - 1) : q[k] <= q[k + 1]

\* C10: the reward trace adapt returns has one entry per executed iteration,
\* entry k is the sum of the best scores of iterations 1..k, and the trace is
\* non-decreasing, every best score being non-negative.
C10_RewardTrace ==
    ad.status = "returned" =>
        LET tr == ad.out.trace
        IN  /\ Len(tr) = ad.iter
            /\ \A k \in 1..Len(tr) : tr[k] = SumSeq(SubSeq(ad.best_scores, 1, k))
            /\ \A k \in 1..Len(tr) : ad.best_scores[k] >= 0
            /\ Increasing(tr)

C10_Witness ==
    /\ ad.status = "returned"
    /\ Len(ad.out.trace) >= 2
    /\ ad.out.trace[1] < ad.out.trace[2]
    /\ Len(ad.sort_Q) >= 2
    /\ ad.Q[ad.sort_Q[1]] > ad.Q[ad.sort_Q[2]]

====
